---------------------------- MODULE Spec2Model ----------------------------
(***************************************************************************)
(* Model of windows/scripts/extract_kernels.py: the driver loop of main(), *)
(* the TemporaryDirectory context manager and the 7z extraction primitive. *)
(*                                                                         *)
(* A file name is the sequence of its dot-separated parts                  *)
(* ('ntoskrnl.exe' is <<"ntoskrnl", "exe">>), a relative path the sequence *)
(* of its segments.                                                        *)
(***************************************************************************)
EXTENDS Integers, Sequences, FiniteSets, TLC

\* Number of supported ISOs the input directory may contain.
MaxPresent == 2
\* Number of shutil.rmtree calls the environment may make fail.
MaxRmFail == 2
\* Number of dot-separated parts of the ISO name of a catalog entry.
MaxParts == 2
\* Number of segments of the paths of a catalog entry.
MaxDepth == 2

Front(s) == SubSeq(s, 1, Len(s) - 1)

Last(s) == s[Len(s)]

XP_ISO == <<"en_windows_xp_professional_with_service_pack_3_x86_cd_x14-80428", "iso">>

WIN7_ISO == <<"en_windows_7_enterprise_with_sp1_x64_dvd_u_677651", "iso">>

WIN81_ISO == <<"en_windows_8_1_enterprise_x64_dvd_2971902", "iso">>

WIN10_ISO == <<"en_windows_10_enterprise_version_1703_updated_march_2017_x64_dvd_10189290", "iso">>

INSTALL_WIM == << <<"sources">>, <<"install", "wim">> >>

SYSTEM32_NTOSKRNL == << <<"Windows">>, <<"System32">>, <<"ntoskrnl", "exe">> >>

NTOSKRNL_MAP ==
    (XP_ISO :> [container |-> << <<"I386">>, <<"NTOSKRNL", "EX_">> >>,
                krnl |-> << <<"ntoskrnl", "exe">> >>])
    @@ (WIN7_ISO :> [container |-> INSTALL_WIM, krnl |-> SYSTEM32_NTOSKRNL])
    @@ (WIN81_ISO :> [container |-> INSTALL_WIM, krnl |-> SYSTEM32_NTOSKRNL])
    @@ (WIN10_ISO :> [container |-> INSTALL_WIM, krnl |-> SYSTEM32_NTOSKRNL])

Catalog == DOMAIN NTOSKRNL_MAP

NoIso == <<>>

\* The first segment is taken for the tail.
os_path_split_first(p) == <<Tail(p), Head(p)>>

\* os.path.split: (head, tail), tail being the final path segment.
os_path_split(p) == <<Front(p), Last(p)>>

\* os.path.splitext taken for the identity on the root: the extension stays.
os_path_splitext_keeps_ext(name) == <<name, <<>> >>

\* os.path.splitext: (root, ext); the extension starts at the last dot,
\* unless that dot is one of the leading dots of the name.
os_path_splitext(name) ==
    IF Len(name) > 1 /\ \E i \in 1..(Len(name) - 1) : name[i] # ""
    THEN <<Front(name), <<Last(name)>> >>
    ELSE <<name, <<>> >>

\* The output name without the ISO's name in it.
KernelName_unprefixed(iso_name) == <<"ntoskrnl", "exe">>

\* '%s_ntoskrnl.exe' % iso_name
KernelName(iso_name) ==
    IF iso_name = <<>> THEN <<"_ntoskrnl", "exe">>
    ELSE Front(iso_name) \o <<Last(iso_name) \o "_ntoskrnl", "exe">>

\* The literal 'ntoskrnl.exe' of the move step.
NTOSKRNL_EXE == <<"ntoskrnl", "exe">>

\* Names tempfile.mkdtemp can generate.
WsNames == 1..(MaxRmFail + 1)

NoDir == 0

\* A TemporaryDirectory object: its fields name and _closed, and the number
\* of shutil.rmtree calls made through it.
NoHandle == [name |-> NoDir, closed |-> FALSE, rmtrees |-> 0]

\* What one run of the 7z subprocess can give back: exit status, captured
\* standard error, and whether the requested member was written to cwd.
ToolResults ==
    [returncode : {0, 2}, stderr : {"", "ERROR"}, extracted : BOOLEAN]

VARIABLES
    iso_dir_ok,     \* os.path.isdir(args.iso_dir)
    output_dir_ok,  \* os.path.isdir(args.output_dir)
    isos,           \* catalog names that are files of the ISO directory
    has7z,          \* the 7z executable is on the PATH
    tool,           \* how 7z is known to behave on each ISO (it is deterministic)
    run,            \* "first" run of the script, or "second" on the same directories
    pc,             \* position of main()
    todo,           \* catalog entries the for loop has not reached yet
    iso,            \* loop variable
    temp_dir,       \* loop-body variable
    returncode,     \* loop-body variable
    stderr,         \* loop-body variable
    files,          \* content of the directory temp_dir
    flow,           \* how the with block is being left
    handle,         \* the TemporaryDirectory object of the with statement
    garbage,        \* TemporaryDirectory objects dropped and not yet finalized
    finalized,      \* TemporaryDirectory objects as their __del__ left them
    tmpdirs,        \* temporary directories that exist on disk
    used,           \* the highest name mkdtemp has returned so far
    outdir,         \* content of the output directory
    printed,        \* kinds of line printed about each entry
    calls,          \* seven_zip_extract invocations inside the current with block
    created,        \* output files each entry's shutil.move made in this run
    rmfails,        \* shutil.rmtree failures so far
    rm_errors,      \* directories with an ERROR line printed and still on disk
    warnings,       \* directories with an 'Implicitly cleaning up' line printed
    prev,           \* how the first run ended
    entry,          \* a catalog entry whose names are being derived
    derived         \* the names main() has derived from entry

env == <<iso_dir_ok, output_dir_ok, isos, has7z>>

locals == <<returncode, stderr>>

cleanup_log == <<rmfails, rm_errors, warnings>>

\* The variables of a run of main().
main_vars == <<iso_dir_ok, output_dir_ok, isos, has7z, tool, run, pc, todo, iso,
               temp_dir, returncode, stderr, files, flow, handle, garbage,
               finalized, tmpdirs, used, outdir, printed, calls, created,
               rmfails, rm_errors, warnings, prev>>

\* The variables of the derivation of names from one catalog entry.
pure == <<entry, derived>>

vars == <<main_vars, pure>>

NoPrev == [pc |-> "none", outdir |-> {}]

NoName == <<>>

NoEntry == [iso |-> NoName, container |-> <<>>, krnl |-> <<>>]

\* The values of the loop body's derived names, none computed yet.
NoDerived == [container_name |-> NoName, src |-> NoName, dst |-> NoName]

\* The state in which main() is entered.
InitMain ==
    /\ iso_dir_ok \in BOOLEAN
    /\ output_dir_ok \in BOOLEAN
    /\ isos \in {s \in SUBSET Catalog : Cardinality(s) <= MaxPresent}
    /\ has7z \in BOOLEAN
    /\ tool = [i \in Catalog |-> "unknown"]
    /\ run = "first"
    /\ pc = "start"
    /\ todo = Catalog
    /\ iso = NoIso
    /\ temp_dir = NoDir
    /\ returncode = 0
    /\ stderr = ""
    /\ files = {}
    /\ flow = "normal"
    /\ handle = NoHandle
    /\ garbage = {}
    /\ finalized = {}
    /\ tmpdirs = {}
    /\ used = 0
    /\ outdir = {}
    /\ printed = [i \in Catalog |-> {}]
    /\ calls = <<>>
    /\ created = [i \in Catalog |-> {}]
    /\ rmfails = 0
    /\ rm_errors = {}
    /\ warnings = {}
    /\ prev = NoPrev

Init ==
    /\ InitMain
    /\ entry = NoEntry
    /\ derived = NoDerived

\* Only the ISO directory is tested.
DirsValid_iso_only == iso_dir_ok

\* Lines 153 and 157: the two os.path.isdir tests.
DirsValid == iso_dir_ok /\ output_dir_ok

\* main(), lines 152-161: both directories are checked before the loop; the
\* exception raised for an invalid one ends the run.
CheckDirs ==
    /\ pc = "start"
    /\ pc' = IF DirsValid THEN "loop" ELSE "failed"
    /\ UNCHANGED <<pure, finalized, env, tool, run, todo, iso, temp_dir, locals, files, flow, handle,
                   garbage, tmpdirs, used, outdir, printed, calls, created,
                   cleanup_log, prev>>

\* The test for the ISO file always passes.
os_path_isfile_always(i) == TRUE

\* Line 165: os.path.isfile(iso_path).
os_path_isfile(i) == i \in isos

\* Lines 163-167: the next entry's ISO is not a file of the ISO directory.
\* A dict is iterated in no order the script fixes.
SkipMissing ==
    /\ pc = "loop"
    /\ \E i \in todo :
        /\ ~os_path_isfile(i)
        /\ iso' = i
        /\ todo' = todo \ {i}
        /\ printed' = [printed EXCEPT ![i] = @ \cup {"notfound"}]
    /\ calls' = <<>>
    /\ UNCHANGED <<pure, finalized, env, tool, run, pc, temp_dir, locals, files, flow, handle,
                   garbage, tmpdirs, used, outdir, created, cleanup_log, prev>>

\* TemporaryDirectory.__init__, lines 88-91: mkdtemp has made a directory
\* under a name that was not in use.
NewTemporaryDirectory(name) == [NoHandle EXCEPT !.name = name]

\* The name of a directory that exists may come back.
mkdtemp_existing == {n \in WsNames : n <= used + 1}

\* tempfile.mkdtemp, line 91: the names it may return, none of a directory
\* that exists.  Names are interchangeable, so those never used before are
\* handed out in order.
mkdtemp == {n \in WsNames \ tmpdirs : n <= used + 1}

\* Lines 163-170: the next entry's ISO exists; the with block is entered.
Acquire ==
    /\ pc = "loop"
    /\ \E i \in todo, name \in mkdtemp :
        /\ os_path_isfile(i)
        /\ iso' = i
        /\ todo' = todo \ {i}
        /\ handle' = NewTemporaryDirectory(name)
        /\ tmpdirs' = tmpdirs \cup {name}
        /\ temp_dir' = name
        /\ used' = IF name > used THEN name ELSE used
        /\ printed' = [printed EXCEPT ![i] = @ \cup {"extracting"}]
    /\ files' = {}
    /\ calls' = <<>>
    /\ flow' = "normal"
    /\ pc' = "hop1"
    /\ UNCHANGED <<pure, finalized, env, tool, run, locals, garbage, outdir, created,
                   cleanup_log, prev>>

\* Results the 7z subprocess may give for hop h of entry i.  A member can be
\* extracted only from an archive that exists, and on an ISO it has already
\* processed 7z gives again what main() read from it then.
SevenZip(i, h, archive_exists) ==
    {r \in ToolResults :
        /\ r.extracted => archive_exists
        /\ h = 1 => /\ tool[i] = "hop1" => r.stderr # ""
                    /\ tool[i] \in {"hop2", "nofile", "ok"} => r.stderr = ""
                    /\ tool[i] = "ok" => r.extracted
        /\ h = 2 => /\ tool[i] = "hop2" => r.returncode # 0
                    /\ tool[i] = "nofile" => r.returncode = 0 /\ ~r.extracted
                    /\ tool[i] = "ok" => r.returncode = 0 /\ r.extracted}

\* Line 164: os.path.join(iso_dir, iso).
InIsoDir(name) == [dir |-> "iso_dir", tmp |-> NoDir, name |-> name]

\* Line 181: os.path.join(temp_dir, container_name).
InTempDir(t, name) == [dir |-> "temp_dir", tmp |-> t, name |-> name]

\* The destination is left out, so 7z runs in os.getcwd().
Call_in_cwd(source, members, dest, r) ==
    [source |-> source, files |-> members, dest |-> NoDir,
     returncode |-> r.returncode, stderr |-> r.stderr]

\* seven_zip_extract, lines 131-145, as recorded by the caller.
Call(source, members, dest, r) ==
    [source |-> source, files |-> members, dest |-> dest,
     returncode |-> r.returncode, stderr |-> r.stderr]

\* A missing executable goes unnoticed.
PopenRaises_never == FALSE

\* Line 141: subprocess.Popen raises when there is no 7z executable.
PopenRaises == ~has7z

\* Hop 1 without its test.
Hop1Failed_never(r) == FALSE

\* Hop 1 tested on the exit status, as hop 2 is.
Hop1Failed_by_status(r) == r.returncode # 0

\* Line 175: the test main() makes on the result of hop 1.
Hop1Failed(r) == r.stderr # ""

\* Hop 2 without its test.
Hop2Failed_never(r) == FALSE

\* Line 186: the test main() makes on the result of hop 2.
Hop2Failed(r) == r.returncode # 0

\* Lines 172-178: hop 1 extracts the container from the ISO.
Hop1 ==
    /\ pc = "hop1"
    /\ IF PopenRaises
       THEN /\ flow' = "raise"
            /\ pc' = "exit"
            /\ UNCHANGED <<tool, files, printed, calls, locals>>
       ELSE \E r \in SevenZip(iso, 1, TRUE) :
            LET container == NTOSKRNL_MAP[iso].container
            IN  /\ calls' = Append(calls, Call(InIsoDir(iso),
                                               <<container>>, temp_dir, r))
                /\ returncode' = r.returncode
                /\ stderr' = r.stderr
                /\ files' = IF r.extracted
                            THEN files \cup {Last(container)} ELSE files
                /\ tool' = IF r.stderr # ""
                           THEN [tool EXCEPT ![iso] = "hop1"] ELSE tool
                /\ IF Hop1Failed(r)
                   THEN /\ printed' = [printed EXCEPT ![iso] = @ \cup {"hop1"}]
                        /\ flow' = "continue"
                        /\ pc' = "exit"
                   ELSE /\ printed' = printed
                        /\ flow' = flow
                        /\ pc' = "hop2"
    /\ UNCHANGED <<pure, finalized, env, run, todo, iso, temp_dir, handle, garbage, tmpdirs, used,
                   outdir, created, cleanup_log, prev>>

\* Lines 180-189: hop 2 extracts the kernel from the container.
Hop2 ==
    /\ pc = "hop2"
    /\ LET container_name == os_path_split(NTOSKRNL_MAP[iso].container)[2]
           container_path == InTempDir(temp_dir, container_name)
           krnl == NTOSKRNL_MAP[iso].krnl
       IN  \E r \in SevenZip(iso, 2, container_name \in files) :
            /\ calls' = Append(calls, Call(container_path, <<krnl>>, temp_dir, r))
            /\ returncode' = r.returncode
            /\ stderr' = r.stderr
            /\ files' = IF r.extracted THEN files \cup {Last(krnl)} ELSE files
            /\ tool' = [tool EXCEPT ![iso] =
                    IF r.returncode # 0 THEN "hop2"
                    ELSE IF r.extracted THEN "ok" ELSE "nofile"]
            /\ IF Hop2Failed(r)
               THEN /\ printed' = [printed EXCEPT ![iso] = @ \cup {"hop2"}]
                    /\ flow' = "continue"
                    /\ pc' = "exit"
               ELSE /\ printed' = printed
                    /\ flow' = flow
                    /\ pc' = "move"
    /\ UNCHANGED <<pure, finalized, env, run, todo, iso, temp_dir, handle, garbage, tmpdirs, used,
                   outdir, created, cleanup_log, prev>>

\* Lines 191-195: shutil.move of temp_dir/ntoskrnl.exe into the output
\* directory; it raises when the source file does not exist and replaces an
\* existing destination file.
Move ==
    /\ pc = "move"
    /\ LET iso_name == os_path_splitext(iso)[1]
       IN  IF NTOSKRNL_EXE \in files
           THEN /\ files' = files \ {NTOSKRNL_EXE}
                /\ outdir' = outdir \cup {KernelName(iso_name)}
                /\ created' = [created EXCEPT ![iso] =
                        @ \cup {KernelName(iso_name)}]
                /\ flow' = flow
           ELSE /\ flow' = "raise"
                /\ UNCHANGED <<files, outdir, created>>
    /\ pc' = "exit"
    /\ UNCHANGED <<pure, finalized, env, tool, run, todo, iso, temp_dir, locals, handle,
                   garbage, tmpdirs, used, printed, calls, cleanup_log, prev>>

\* Outcomes shutil.rmtree may have now: TRUE when the tree is removed.
RmOutcomes == {TRUE} \cup (IF rmfails < MaxRmFail THEN {FALSE} ELSE {})

\* The _closed flag is not looked at.
CallsRmtree_ignores_closed(h) == h.name # NoDir

\* Line 106: whether this cleanup call gets to shutil.rmtree.
CallsRmtree(h) == h.name # NoDir /\ ~h.closed

\* TemporaryDirectory.cleanup, lines 105-116: what becomes of the object h.
cleanup(h, rm_ok) ==
    IF CallsRmtree(h)
    THEN IF rm_ok
         THEN [h EXCEPT !.rmtrees = @ + 1, !.closed = TRUE]
         ELSE [h EXCEPT !.rmtrees = @ + 1]
    ELSE h

\* A cleanup that marks and prints as the code does but removes nothing.
Cleanup_keeps_tree(h, warn, rm_ok) ==
    /\ CallsRmtree(h) \/ rm_ok
    /\ tmpdirs' = tmpdirs
    /\ rmfails' = IF rm_ok THEN rmfails ELSE rmfails + 1
    /\ rm_errors' = IF ~CallsRmtree(h) THEN rm_errors
                    ELSE IF rm_ok THEN rm_errors \ {h.name}
                    ELSE rm_errors \cup {h.name}
    /\ warnings' = IF CallsRmtree(h) /\ rm_ok /\ warn
                   THEN warnings \cup {h.name} ELSE warnings

\* The 'Implicitly cleaning up' line is printed whenever warn is set.
Cleanup_warns_always(h, warn, rm_ok) ==
    /\ CallsRmtree(h) \/ rm_ok
    /\ tmpdirs' = IF CallsRmtree(h) /\ rm_ok THEN tmpdirs \ {h.name}
                  ELSE tmpdirs
    /\ rmfails' = IF rm_ok THEN rmfails ELSE rmfails + 1
    /\ rm_errors' = IF ~CallsRmtree(h) THEN rm_errors
                    ELSE IF rm_ok THEN rm_errors \ {h.name}
                    ELSE rm_errors \cup {h.name}
    /\ warnings' = IF warn THEN warnings \cup {h.name} ELSE warnings

\* TemporaryDirectory.cleanup, lines 105-116: what it does to the file
\* system and what it prints.
Cleanup(h, warn, rm_ok) ==
    /\ CallsRmtree(h) \/ rm_ok
    /\ tmpdirs' = IF CallsRmtree(h) /\ rm_ok THEN tmpdirs \ {h.name}
                  ELSE tmpdirs
    /\ rmfails' = IF rm_ok THEN rmfails ELSE rmfails + 1
    /\ rm_errors' = IF ~CallsRmtree(h) THEN rm_errors
                    ELSE IF rm_ok THEN rm_errors \ {h.name}
                    ELSE rm_errors \cup {h.name}
    /\ warnings' = IF CallsRmtree(h) /\ rm_ok /\ warn
                   THEN warnings \cup {h.name} ELSE warnings

\* An exception of shutil.rmtree leaves __exit__ and ends the run.
AfterWith_rmtree_propagates(rm_ok) ==
    IF ~rm_ok THEN "failed"
    ELSE CASE flow = "raise" -> "failed"
           [] flow = "continue" -> "loop"
           [] OTHER -> "report"

\* A continue in the with block goes on to line 197.
AfterWith_continue_reports(rm_ok) ==
    CASE flow = "raise" -> "failed"
      [] OTHER -> "report"

\* Where main() goes on after __exit__ has returned: an exception raised in
\* the block leaves main(), a continue (lines 178, 189) starts the next
\* iteration, the end of the block leads to line 197.  cleanup() has caught
\* the exception of a failed rmtree (lines 109-112), so rm_ok plays no part.
AfterWith(rm_ok) ==
    CASE flow = "raise" -> "failed"
      [] flow = "continue" -> "loop"
      [] OTHER -> "report"

\* TemporaryDirectory.__exit__, lines 99-100: it returns None, so an exception
\* raised in the block goes on to leave main().  The with statement then
\* drops the object.
Exit ==
    /\ pc = "exit"
    /\ \E rm_ok \in RmOutcomes :
        /\ Cleanup(handle, FALSE, rm_ok)
        /\ garbage' = garbage \cup {cleanup(handle, rm_ok)}
        /\ pc' = AfterWith(rm_ok)
    /\ handle' = NoHandle
    /\ files' = {}
    /\ calls' = <<>>
    /\ returncode' = 0
    /\ stderr' = ""
    /\ UNCHANGED <<pure, finalized, env, used, tool, run, todo, iso, temp_dir, flow, outdir,
                   printed, created, prev>>

\* Line 197, after the with block.
Report ==
    /\ pc = "report"
    /\ printed' = [printed EXCEPT ![iso] = @ \cup {"ok"}]
    /\ pc' = "loop"
    /\ UNCHANGED <<pure, finalized, env, tool, run, todo, iso, temp_dir, locals, files, flow,
                   handle, garbage, tmpdirs, used, outdir, calls, created,
                   cleanup_log, prev>>

\* TemporaryDirectory.__del__, lines 102-103: runs at some point after the
\* with statement has dropped the object, or never.
Finalize ==
    /\ \E h \in garbage, rm_ok \in RmOutcomes :
        /\ Cleanup(h, TRUE, rm_ok)
        /\ garbage' = garbage \ {h}
        /\ finalized' = finalized \cup {cleanup(h, rm_ok)}
    /\ UNCHANGED <<pure, env, used, tool, run, pc, todo, iso, temp_dir, locals, files,
                   flow, handle, outdir, printed, calls, created, prev>>

\* Line 163: the for loop is exhausted and main() returns.
Finish ==
    /\ pc = "loop"
    /\ todo = {}
    /\ pc' = "done"
    /\ UNCHANGED <<pure, finalized, env, tool, run, todo, iso, temp_dir, locals, files, flow,
                   handle, garbage, tmpdirs, used, outdir, printed, calls, created,
                   cleanup_log, prev>>

\* The script is started again on the same directories: a new process, with
\* the file system as the first one left it.
Rerun ==
    /\ pc \in {"done", "failed"}
    /\ run = "first"
    /\ run' = "second"
    /\ prev' = [pc |-> pc, outdir |-> outdir]
    /\ pc' = "start"
    /\ todo' = Catalog
    /\ iso' = NoIso
    /\ temp_dir' = NoDir
    /\ returncode' = 0
    /\ stderr' = ""
    /\ files' = {}
    /\ flow' = "normal"
    /\ handle' = NoHandle
    /\ garbage' = {}
    /\ printed' = [i \in Catalog |-> {}]
    /\ calls' = <<>>
    /\ created' = [i \in Catalog |-> {}]
    /\ finalized' = {}
    /\ UNCHANGED <<pure, env, tool, tmpdirs, used, outdir, cleanup_log>>

\* One run of the script.
Next ==
    \/ CheckDirs
    \/ SkipMissing
    \/ Acquire
    \/ Hop1
    \/ Hop2
    \/ Move
    \/ Exit
    \/ Report
    \/ Finalize
    \/ Finish

Spec == Init /\ [][Next]_vars

\* A run of the script and a second run after it.
NextRerun ==
    \/ Next
    \/ Rerun

SpecRerun == Init /\ [][NextRerun]_vars

\* ISO names a catalog could hold: with and without an extension, with
\* several dots, with a leading or a trailing dot.
IsoNames ==
    UNION {[1..k -> {"", "x", "iso"}] : k \in 1..MaxParts} \ {<<"">>}

\* Relative paths of at most MaxDepth segments ending in one of the names.
PathsTo(names) ==
    {d \o <<n>> : d \in UNION {[1..k -> {<<"d">>}] : k \in 0..(MaxDepth - 1)},
                  n \in names}

\* Items NTOSKRNL_MAP.items() could give: those of the catalog as it is, and
\* others.
Entries ==
    {[iso |-> i, container |-> NTOSKRNL_MAP[i].container,
      krnl |-> NTOSKRNL_MAP[i].krnl] : i \in Catalog}
    \cup [iso : IsoNames,
          container : PathsTo({<<"c", "ex_">>}),
          krnl : PathsTo({NTOSKRNL_EXE, <<"hal", "dll">>})]

\* The names of the loop body are derived from one catalog entry, main()
\* being otherwise at rest.
InitNames ==
    /\ InitMain
    /\ iso_dir_ok /\ output_dir_ok /\ has7z /\ isos = {}
    /\ entry \in Entries
    /\ derived = NoDerived

\* Lines 180-181: the name of the container in temp_dir.
ContainerPath ==
    /\ entry # NoEntry
    /\ derived.container_name = NoName
    /\ derived' = [derived EXCEPT
            !.container_name = os_path_split(entry.container)[2]]
    /\ UNCHANGED <<main_vars, entry>>

\* Lines 193-195: the two arguments of shutil.move, without their
\* directories.
MoveArgs ==
    /\ derived.container_name # NoName
    /\ derived.src = NoName
    /\ derived' = [derived EXCEPT
            !.src = NTOSKRNL_EXE,
            !.dst = KernelName(os_path_splitext(entry.iso)[1])]
    /\ UNCHANGED <<main_vars, entry>>

NextNames ==
    \/ ContainerPath
    \/ MoveArgs

SpecNames == InitNames /\ [][NextNames]_vars

(***************************************************************************)
(* Properties.                                                             *)
(***************************************************************************)

\* main() is inside the with block of the current entry.
WithBlock == pc \in {"hop1", "hop2", "move", "exit"}

\* The processing of entry i is over in this run.
Passed(i) == i \notin todo /\ ~(iso = i /\ WithBlock)

\* The run is over.
RunOver == pc \in {"done", "failed"}

Outcomes == {"notfound", "hop1", "hop2", "ok"}

\* <identifier>_<targetBaseName>: the ISO's name without its extension, "_",
\* and the final segment of the entry's target path.
Artifact(i) ==
    LET identifier == Front(i)
        base == Last(NTOSKRNL_MAP[i].krnl)
    IN  Front(identifier) \o <<Last(identifier) \o "_" \o base[1]>>
            \o Tail(base)

\* The workspace of the entry just processed is on disk only if its removal
\* failed and was reported.
RemovedUnlessRmtreeFailed == temp_dir \in tmpdirs <=> temp_dir \in rm_errors

\* C1: an entry whose ISO is not in the input directory gets the not-found
\* line and nothing else: no workspace is acquired for it and the extraction
\* primitive is not invoked on it.
C1_AbsentSkipped ==
    \A i \in Catalog \ isos :
        /\ printed[i] = IF i \in todo THEN {} ELSE {"notfound"}
        /\ created[i] = {}
        /\ iso = i => handle = NoHandle /\ calls = <<>> /\ ~WithBlock
        /\ \A k \in 1..Len(calls) : calls[k].source # InIsoDir(i)

C1_Witness ==
    /\ isos # {}
    /\ \E i \in Catalog \ isos :
        iso = i /\ printed[i] = {"notfound"} /\ pc = "loop"

\* C2 as stated: once an entry on which both hops succeeded has been
\* processed, exactly one artifact, <identifier>_<targetBaseName>, was made
\* for it in the output directory and its workspace no longer exists.
C2_Original ==
    \A i \in isos :
        tool[i] = "ok" /\ Passed(i) =>
            /\ created[i] = {Artifact(i)}
            /\ Artifact(i) \in outdir
            /\ iso = i => temp_dir \notin tmpdirs

\* C2 amended: once an entry on which both hops succeeded has been processed,
\* exactly one artifact, <identifier>_<targetBaseName>, was made for it in the
\* output directory, and its workspace no longer exists unless shutil.rmtree
\* failed on it, which was reported.
C2_Amended ==
    \A i \in isos :
        tool[i] = "ok" /\ Passed(i) =>
            /\ created[i] = {Artifact(i)}
            /\ Artifact(i) \in outdir
            /\ iso = i => RemovedUnlessRmtreeFailed

C2_Witness ==
    \E i \in isos :
        /\ tool[i] = "ok" /\ iso = i /\ pc = "loop"
        /\ "ok" \in printed[i]
        /\ temp_dir \notin tmpdirs
        /\ outdir = {Artifact(i)}

\* Some call of this with block gave a failure signal of either kind.
AnySignal ==
    \E k \in 1..Len(calls) : calls[k].returncode # 0 \/ calls[k].stderr # ""

\* Hop 1 gave diagnostic text or hop 2 gave a non-zero status.
DetectedSignal ==
    \/ Len(calls) >= 1 /\ calls[1].stderr # ""
    \/ Len(calls) = 2 /\ calls[2].returncode # 0

Skipped(i) == printed[i] \cap {"hop1", "hop2"} # {}

\* C3 as stated: when a hop of an entry fails by either signal (non-zero
\* status or non-empty diagnostic), no artifact is made for the entry and its
\* workspace is removed.
C3_Original ==
    /\ WithBlock /\ AnySignal => created[iso] = {}
    /\ \A i \in isos :
        Skipped(i) /\ Passed(i) =>
            /\ created[i] = {}
            /\ iso = i => temp_dir \notin tmpdirs

\* C3 amended: when hop 1 gives diagnostic text or hop 2 gives a non-zero
\* status, the entry is skipped, no artifact is made for it, and its workspace
\* no longer exists afterwards unless shutil.rmtree failed on it, which was
\* reported.
C3_Amended ==
    /\ WithBlock /\ DetectedSignal =>
            /\ pc = "exit" /\ flow = "continue"
            /\ Skipped(iso)
            /\ created[iso] = {}
    /\ \A i \in isos :
        Skipped(i) /\ Passed(i) =>
            /\ created[i] = {}
            /\ "ok" \notin printed[i]
            /\ iso = i => RemovedUnlessRmtreeFailed

C3_Witness ==
    /\ iso \in isos
    /\ "hop2" \in printed[iso]
    /\ pc = "loop"
    /\ temp_dir \notin tmpdirs
    /\ created[iso] = {}

\* C4 as stated, with the tool installed: once both directories have passed
\* their test the run does not abort, and when it ends every catalog entry
\* has an outcome.
C4_Original ==
    iso_dir_ok /\ output_dir_ok /\ has7z =>
        /\ pc # "failed"
        /\ pc = "done" => \A i \in Catalog : printed[i] \cap Outcomes # {}

\* C5 as stated: outside the with block no workspace is on disk.
C5_Original == handle = NoHandle => tmpdirs = {}

\* C5 amended: on every way out of the with block shutil.rmtree is called on
\* the workspace before the next entry starts or the run ends; the only
\* workspaces on disk outside the with block are those on which rmtree
\* failed, which was reported.
C5_Amended ==
    /\ ~WithBlock => handle = NoHandle
    /\ handle = NoHandle => tmpdirs = rm_errors
    /\ handle # NoHandle =>
            /\ handle.name \in tmpdirs
            /\ tmpdirs \ {handle.name} = rm_errors
    /\ \A h \in garbage : h.rmtrees >= 1 /\ (~h.closed => h.name \in rm_errors)

C5_Witness ==
    /\ pc = "failed"
    /\ has7z
    /\ iso_dir_ok /\ output_dir_ok
    /\ garbage # {}
    /\ tmpdirs = {}

\* C6: when the input or the output directory is not a directory the run
\* fails at once: no entry is reached, nothing is printed about any entry, no
\* workspace is made, 7z is not invoked and no artifact is made.
C6_PreconditionFatal ==
    ~(iso_dir_ok /\ output_dir_ok) =>
        /\ pc \in {"start", "failed"}
        /\ todo = Catalog
        /\ \A i \in Catalog : printed[i] = {} /\ created[i] = {}
        /\ handle = NoHandle /\ garbage = {} /\ tmpdirs = {}
        /\ calls = <<>>
        /\ outdir = {}

C6_Witness ==
    /\ pc = "failed"
    /\ iso_dir_ok /\ ~output_dir_ok
    /\ isos # {}
    /\ has7z

\* C7 as stated: when 7z is missing nothing is printed about any entry and no
\* workspace is acquired.
C7_Original ==
    ~has7z =>
        /\ \A i \in Catalog : printed[i] = {}
        /\ handle = NoHandle
        /\ tmpdirs = {}

\* C7 amended: a missing 7z is found when hop 1 of the first entry whose ISO
\* is present tries to start it, inside that entry's workspace; the exception
\* leaves main() and ends the run.  No extraction is made, no artifact is
\* made, no hop outcome or success is printed and no later present entry is
\* reached; entries reached before it have had their not-found line, and a
\* run that meets no present ISO ends normally.
C7_Amended ==
    ~has7z =>
        /\ calls = <<>> /\ outdir = {}
        /\ \A i \in Catalog :
            /\ created[i] = {}
            /\ printed[i] \subseteq {"notfound", "extracting"}
        /\ pc \notin {"hop2", "move", "report"}
        /\ Cardinality(isos \ todo) <= 1
        /\ isos \ todo # {} /\ ~WithBlock => pc = "failed"
        /\ pc = "failed" /\ iso_dir_ok /\ output_dir_ok => isos \ todo # {}
        /\ pc = "done" => isos = {}

C7_Witness ==
    /\ ~has7z
    /\ pc = "failed"
    /\ iso_dir_ok /\ output_dir_ok
    /\ \E i \in Catalog : printed[i] = {"notfound"}
    /\ \E i \in Catalog : printed[i] = {"extracting"}

\* C8 as stated: with a deterministic 7z, after the second run the output
\* directory holds what it held after the first, and the second run fails
\* only if the first did.
C8_Original ==
    run = "second" /\ RunOver =>
        /\ outdir = prev.outdir
        /\ pc = "failed" => prev.pc = "failed"

\* C9: in a run started on an empty output directory, when the run ends the
\* output directory holds as many artifacts as entries had their success
\* line; the names made for two catalog entries differ.
C9_OnePerSuccess ==
    run = "first" /\ RunOver =>
        /\ Cardinality(outdir)
                = Cardinality({i \in Catalog : "ok" \in printed[i]})
        /\ \A i, j \in Catalog :
            i # j => KernelName(os_path_splitext(i)[1])
                        # KernelName(os_path_splitext(j)[1])

C9_Witness ==
    /\ run = "first"
    /\ pc = "done"
    /\ Cardinality(outdir) = 2
    /\ Cardinality({i \in Catalog : "ok" \in printed[i]}) = 2

\* C10: hop 1 is taken to have failed exactly when its diagnostic text is not
\* empty, whatever its status; hop 2 exactly when its status is not zero,
\* whatever its diagnostic text.
C10_Asymmetric ==
    /\ pc = "hop2" => Len(calls) = 1
    /\ pc = "move" => Len(calls) = 2
    /\ Len(calls) = 1 =>
        /\ calls[1].stderr = "" <=> pc = "hop2"
        /\ calls[1].stderr # "" <=>
                pc = "exit" /\ flow = "continue" /\ "hop1" \in printed[iso]
    /\ Len(calls) = 2 =>
        /\ calls[1].stderr = ""
        /\ "hop1" \notin printed[iso]
        /\ calls[2].returncode = 0 <=>
                pc = "move" \/ (pc = "exit" /\ flow \in {"normal", "raise"})
        /\ calls[2].returncode # 0 <=>
                pc = "exit" /\ flow = "continue" /\ "hop2" \in printed[iso]

C10_Witness ==
    /\ pc = "move"
    /\ calls[1].returncode # 0 /\ calls[1].stderr = ""
    /\ calls[2].returncode = 0 /\ calls[2].stderr # ""


\* C11: within one entry the workspace is acquired before hop 1; hop 2 is
\* invoked only after hop 1 gave an empty diagnostic and never after a hop-1
\* abort; the move is made only after hop 2 gave status zero; the workspace is
\* released after the last of these steps and nothing is extracted after the
\* release; seven_zip_extract is invoked at most twice per entry.
C11_StepOrder ==
    /\ Len(calls) <= 2
    /\ WithBlock =>
            /\ handle # NoHandle /\ handle.rmtrees = 0
            /\ handle.name = temp_dir /\ temp_dir \in tmpdirs
    /\ ~WithBlock => handle = NoHandle /\ calls = <<>>
    /\ pc = "hop1" => calls = <<>>
    /\ pc = "hop2" => Len(calls) = 1
    /\ pc = "move" => Len(calls) = 2
    /\ Len(calls) >= 1 => calls[1].source = InIsoDir(iso)
    /\ Len(calls) = 2 =>
            /\ calls[1].stderr = ""
            /\ calls[2].source.dir = "temp_dir"
            /\ "hop1" \notin printed[iso]
    /\ pc = "move" \/ (WithBlock /\ created[iso] # {}) =>
            Len(calls) = 2 /\ calls[2].returncode = 0
    /\ WithBlock /\ "hop1" \in printed[iso] =>
            pc = "exit" /\ Len(calls) = 1 /\ created[iso] = {}
    /\ WithBlock /\ "hop2" \in printed[iso] =>
            pc = "exit" /\ Len(calls) = 2 /\ created[iso] = {}

C11_Witness ==
    /\ pc = "exit"
    /\ flow = "normal"
    /\ Len(calls) = 2
    /\ created[iso] # {}
    /\ handle.name \in tmpdirs

\* C12 as stated: shutil.rmtree is attempted exactly once on every workspace
\* over the whole life of its TemporaryDirectory object.
C12_Original ==
    /\ handle.rmtrees = 0
    /\ \A h \in garbage \cup finalized : h.rmtrees = 1

\* The rmtree attempts made so far through each TemporaryDirectory object.
C12_Attempts ==
    /\ handle.rmtrees = 0
    /\ \A h \in garbage : h.rmtrees = 1
    /\ \A h \in finalized :
        /\ h.rmtrees \in {1, 2}
        /\ h.rmtrees = 1 => h.closed

\* A step of __del__ on the object h: nothing is done for an object whose
\* rmtree has succeeded, a second attempt is made otherwise.
C12_FinalizerStep ==
    \A h \in garbage :
        h \notin garbage' /\ run' = run =>
            IF h.closed
            THEN h \in finalized' /\ UNCHANGED <<tmpdirs, cleanup_log>>
            ELSE \E g \in finalized' : g.name = h.name /\ g.rmtrees = 2

\* C12 amended: on every way out of the with block __exit__ attempts
\* shutil.rmtree on the workspace exactly once; __del__ attempts it once more
\* exactly when that attempt failed, and not at all after it succeeded; a
\* workspace gets two attempts at most.
C12_Amended == []C12_Attempts /\ [][C12_FinalizerStep]_vars

C12_Witness ==
    \E h \in finalized : h.rmtrees = 2 /\ h.closed


\* The scoped exit of the entry just processed could not remove its
\* workspace: the object __exit__ left behind is not closed.
ExitFailed ==
    /\ iso \in isos
    /\ ~WithBlock
    /\ \E h \in garbage : h.name = temp_dir /\ ~h.closed

\* A step in which shutil.rmtree fails: the failure is printed and nothing
\* else comes of it.
C13_FailureStep ==
    rmfails' # rmfails =>
        /\ rmfails' = rmfails + 1
        /\ UNCHANGED <<outdir, created, printed, todo, iso, flow>>
        /\ IF handle' # handle
           THEN /\ pc = "exit"
                /\ handle.name \in rm_errors' /\ handle.name \in tmpdirs'
                /\ flow = "normal" => pc' = "report"
                /\ flow = "continue" => pc' = "loop"
                /\ pc' = "failed" => flow = "raise"
           ELSE /\ pc' = pc
                /\ \E h \in garbage : h.name \in rm_errors' /\ h.name \in tmpdirs'

\* The outcome of an entry whose workspace could not be removed.
C13_Outcome ==
    /\ \A i \in Catalog :
        "ok" \in printed[i] => created[i] = {Artifact(i)} /\ Artifact(i) \in outdir
    /\ ExitFailed =>
            /\ temp_dir \in rm_errors
            /\ pc = "failed" => flow = "raise"
            /\ flow = "normal" =>
                    /\ created[iso] = {Artifact(iso)}
                    /\ pc = "report" \/ "ok" \in printed[iso]
            /\ flow = "continue" =>
                    /\ Skipped(iso) /\ created[iso] = {}
                    /\ "ok" \notin printed[iso]
                    /\ pc \in {"loop", "done"}

\* C13: a failure of shutil.rmtree is printed and goes no further: the entry
\* keeps the outcome it had (a successful entry keeps its artifact and gets its
\* success line, a skipped entry keeps its skip), and the loop goes on to the
\* remaining entries.
C13_NoPropagation == []C13_Outcome /\ [][C13_FailureStep]_vars

C13_Witness ==
    /\ pc = "done"
    /\ ExitFailed
    /\ temp_dir \in rm_errors
    /\ "ok" \in printed[iso]
    /\ Artifact(iso) \in outdir
    /\ \E j \in isos : Skipped(j)


\* C14 as stated: whenever the move step is reached the target file is in the
\* entry's workspace, and the move never fails for a missing source.
C14_Original ==
    /\ pc = "move" => Last(NTOSKRNL_MAP[iso].krnl) \in files
    /\ ~(pc = "exit" /\ flow = "raise" /\ Len(calls) = 2)


\* The final segment of a path.
Basename(path) == path[Len(path)]

\* A file name without its extension: what precedes its last dot, when
\* something other than dots precedes it.
WithoutExtension(name) ==
    IF Len(name) >= 2 /\ SelectSeq(Front(name), LAMBDA part : part # "") # <<>>
    THEN Front(name) ELSE name

\* identifier, "_", base name.
ArtifactName(identifier, base) ==
    Front(identifier) \o <<Last(identifier) \o "_" \o Head(base)>> \o Tail(base)

C16_OneAtATime ==
    /\ WithBlock =>
            /\ handle # NoHandle /\ handle.name = temp_dir
            /\ iso \in isos /\ iso \notin todo
    /\ ~WithBlock => handle = NoHandle /\ files = {}
    /\ tmpdirs \ rm_errors \subseteq {handle.name}
    /\ \A k \in 1..Len(calls) : calls[k].dest = handle.name

\* A step that gives the with statement its TemporaryDirectory object: the
\* directory is new and empty, and no object still owns a directory of that
\* name; the object stays with its entry until it is dropped.
C16_AcquireStep ==
    /\ handle = NoHandle /\ handle' # NoHandle =>
            /\ handle'.name \notin tmpdirs
            /\ handle'.name \in tmpdirs'
            /\ handle'.rmtrees = 0 /\ ~handle'.closed
            /\ files' = {}
            /\ \A h \in garbage : ~h.closed => h.name # handle'.name
            /\ iso' \in todo \cap isos
            /\ todo' = todo \ {iso'}
    /\ handle # NoHandle /\ handle' # NoHandle =>
            handle' = handle /\ iso' = iso /\ temp_dir' = temp_dir

\* C16: entries are processed one at a time: at most one entry is in its with
\* block and at most one workspace is live; each present entry gets a
\* workspace that did not exist when it was created, distinct from every
\* workspace of another entry still on disk, and no workspace passes from one
\* entry to another.
C16_Sequential == []C16_OneAtATime /\ [][C16_AcquireStep]_vars

C16_Witness ==
    /\ WithBlock
    /\ rm_errors # {}
    /\ handle.name \notin rm_errors
    /\ Cardinality(tmpdirs) = 2
    /\ Cardinality(isos \ todo) = 2

\* C17 as stated: when __del__ comes to an object whose workspace the scoped
\* exit did not remove, the 'Implicitly cleaning up' line is printed; when the
\* scoped exit removed it, __del__ removes nothing and prints nothing.
C17_OriginalStep ==
    \A h \in garbage :
        h \notin garbage' /\ run' = run =>
            IF h.closed
            THEN UNCHANGED <<tmpdirs, cleanup_log>>
            ELSE h.name \in warnings'

C17_Original == [][C17_OriginalStep]_vars

\* A step of __del__ on the object h.
C17_FinalizerStep ==
    \A h \in garbage :
        h \notin garbage' /\ run' = run =>
            IF h.closed
            THEN UNCHANGED <<tmpdirs, cleanup_log>>
            ELSE \/ /\ rmfails' = rmfails
                    /\ tmpdirs' = tmpdirs \ {h.name}
                    /\ rm_errors' = rm_errors \ {h.name}
                    /\ warnings' = warnings \cup {h.name}
                 \/ /\ rmfails' = rmfails + 1
                    /\ tmpdirs' = tmpdirs
                    /\ rm_errors' = rm_errors \cup {h.name}
                    /\ warnings' = warnings

\* C17 amended: when __del__ comes to an object whose workspace the scoped
\* exit did not remove, it attempts the removal again and prints the
\* 'Implicitly cleaning up' line only if this attempt succeeds; if it fails
\* too, an ERROR line is printed, no warning, and the workspace stays.  When
\* the scoped exit removed the workspace, __del__ removes nothing and prints
\* nothing.
C17_Amended == [][C17_FinalizerStep]_vars

C17_Witness ==
    \E h \in finalized :
        /\ h.rmtrees = 2 /\ ~h.closed
        /\ h.name \in rm_errors /\ h.name \in tmpdirs
        /\ h.name \notin warnings

\* The loop has processed entry i to completion.
Completed(i) ==
    /\ i \notin todo
    /\ ~(iso = i /\ (WithBlock \/ pc \in {"report", "failed"}))

\* C18: an entry processed to completion has exactly one of the outcomes
\* not-found, hop-1 skip, hop-2 skip and success, and no entry ever has two;
\* success is reported for an entry exactly when its move was made, and only
\* after __exit__ has attempted the removal of its workspace.
C18_OneOutcome ==
    /\ \A i \in Catalog :
        /\ Cardinality(printed[i] \cap Outcomes) <= 1
        /\ Completed(i) => Cardinality(printed[i] \cap Outcomes) = 1
        /\ "ok" \in printed[i] => created[i] # {}
        /\ Completed(i) /\ created[i] # {} => "ok" \in printed[i]
    /\ pc = "report" \/ (iso \in isos /\ "ok" \in printed[iso]) =>
            /\ handle = NoHandle
            /\ created[iso] # {}
            /\ \E h \in garbage \cup finalized :
                    h.name = temp_dir /\ h.rmtrees >= 1

C18_Witness ==
    /\ pc = "done"
    /\ \E i, j \in isos, k \in Catalog \ isos :
        /\ printed[i] \cap Outcomes = {"ok"}
        /\ printed[j] \cap Outcomes = {"hop1"}
        /\ printed[k] \cap Outcomes = {"notfound"}

\* The extraction calls of the with block run in its workspace, and the
\* output directory holds what the moves of this run have put there.
C19_Writes ==
    /\ \A k \in 1..Len(calls) :
            calls[k].dest = temp_dir /\ temp_dir = handle.name
                /\ temp_dir \in tmpdirs
    /\ \A i \in Catalog :
            created[i] # {} => i \in isos /\ ~Skipped(i)
                                /\ "notfound" \notin printed[i]
    /\ run = "first" => outdir = UNION {created[i] : i \in Catalog}

\* A step that changes the output directory is the move of an entry both of
\* whose hops have passed their tests, and adds that entry's artifact; no
\* step removes a file of the output directory.
C19_Step ==
    /\ outdir \subseteq outdir'
    /\ outdir' # outdir \/ (created' # created /\ run' = run) =>
            /\ pc = "move" /\ pc' = "exit" /\ flow' = "normal"
            /\ Len(calls) = 2 /\ calls[2].returncode = 0 /\ calls[1].stderr = ""
            /\ outdir' = outdir \cup {Artifact(iso)}
            /\ created' = [created EXCEPT ![iso] = {Artifact(iso)}]
    /\ pc' = "exit" /\ flow' = "continue" => outdir' = outdir
    /\ pc = "exit" /\ flow = "continue" => outdir' = outdir
    /\ iso' # iso /\ iso' \notin isos /\ run' = run => outdir' = outdir

\* C19: every extraction call of an entry has the entry's workspace as its
\* destination; the output directory is changed only by the move step of an
\* entry that goes on to succeed; an entry that ends in a not-found, hop-1 or
\* hop-2 skip leaves the output directory as it was, artifacts of earlier
\* entries and earlier runs included.
C19_Frame == []C19_Writes /\ [][C19_Step]_vars

C19_Witness ==
    /\ pc = "exit"
    /\ flow = "continue"
    /\ Len(calls) = 2
    /\ outdir # {}
    /\ created[iso] = {}

=============================================================================
